---- MODULE Spec2Model ----
(***************************************************************************)
(* A model of python/mlx/nn/losses.py: the seven loss functions, the       *)
(* shared reduction helper _reduce, the decorator _make_loss_module and    *)
(* the BCELoss module object.                                              *)
(*                                                                         *)
(* Tensors are records [shape, data] with data in row-major order.  Tensor *)
(* entries are exact rationals [num, den]; the transcendental functions of *)
(* mlx.core (exp, log, logsumexp) are computed in fixed point to 1/1000.   *)
(* A call's outcome is a record telling whether it returned or raised,     *)
(* the line that raised, the message and the shapes formatted into it,     *)
(* the local variable loss at exit and the returned tensor.                *)
(*                                                                         *)
(* Python runs with assertions enabled, every dimension of an input has    *)
(* size at least 1, and class indices lie inside the axis they index.      *)
(* The shape of an array is a Python list, so shape[0] of an array without *)
(* axes raises IndexError.                                                 *)
(***************************************************************************)
EXTENDS Integers, Sequences, FiniteSets

VARIABLES pc, fn, args, result, module, hist

vars == <<pc, fn, args, result, module, hist>>

(***************************************************************************)
(* Bounds of the input universe.                                           *)
(***************************************************************************)
\* every dimension of an input tensor has a size in 1..MaxDim, but for the
\* middle dimension of the longest of ThreeAxisShapes, which has MaxDim + 1
MaxDim == 2
\* tensor entries are integers in -MaxVal..MaxVal
MaxVal == 1

(***************************************************************************)
(* Exact rational arithmetic (Python floats / mlx float32 entries).        *)
(***************************************************************************)
IAbs(n) == IF n < 0 THEN -n ELSE n

IMax(a, b) == IF a >= b THEN a ELSE b

RECURSIVE Gcd(_, _)
Gcd(a, b) == IF b = 0 THEN a ELSE Gcd(b, a % b)

Rat(n, d) ==
    LET s == IF d < 0 THEN -1 ELSE 1
        g == Gcd(IAbs(n), IAbs(d))
    IN  [num |-> (s * n) \div g, den |-> (s * d) \div g]

RInt(n) == [num |-> n, den |-> 1]

RAdd(a, b) ==
    LET l == (a.den \div Gcd(a.den, b.den)) * b.den
    IN  Rat(a.num * (l \div a.den) + b.num * (l \div b.den), l)

RNeg(a) == [num |-> -a.num, den |-> a.den]

RSub(a, b) == RAdd(a, RNeg(b))

RMul(a, b) ==
    LET g1 == Gcd(IAbs(a.num), b.den)
        g2 == Gcd(IAbs(b.num), a.den)
    IN  Rat((a.num \div g1) * (b.num \div g2), (a.den \div g2) * (b.den \div g1))

RDiv(a, b) == RMul(a, Rat(b.den, b.num))

RAbs(a) == [num |-> IAbs(a.num), den |-> a.den]

RSquare(a) == RMul(a, a)

RLt(a, b) == a.num * b.den < b.num * a.den

RLe(a, b) == a.num * b.den <= b.num * a.den

RECURSIVE RSumFrom(_, _)
RSumFrom(s, i) == IF i > Len(s) THEN RInt(0) ELSE RAdd(s[i], RSumFrom(s, i + 1))

\* the total of a sequence of rationals
RSum(s) == RSumFrom(s, 1)

\* the average of a non-empty sequence of rationals
RMean(s) == RDiv(RSum(s), RInt(Len(s)))

(***************************************************************************)
(* mx.exp and mx.log in fixed point: arguments and results are rounded to  *)
(* thousandths.  exp uses its power series (and 1/exp(-x) for x < 0), log  *)
(* halves or doubles its argument into [1, 2) and uses the atanh series.   *)
(***************************************************************************)
ToMilli(q) == (q.num * 1000) \div q.den

FromMilli(m) == Rat(m, 1000)

RECURSIVE ExpSeries(_, _, _)
ExpSeries(x, term, k) ==
    IF term = 0 THEN 0 ELSE term + ExpSeries(x, (term * x) \div (k * 1000), k + 1)

ExpMilli(x) ==
    IF x >= 0 THEN ExpSeries(x, 1000, 1)
    ELSE 1000000 \div ExpSeries(-x, 1000, 1)

RECURSIVE AtanhSeries(_, _, _)
AtanhSeries(z, pow, k) ==
    IF pow = 0 THEN 0
    ELSE (pow \div k) + AtanhSeries(z, (pow * z * z) \div 1000000, k + 2)

RECURSIVE LnMilli(_)
LnMilli(y) ==
    IF y >= 2000 THEN 693 + LnMilli(y \div 2)
    ELSE IF y < 1000 THEN LnMilli(y * 2) - 693
    ELSE LET z == ((y - 1000) * 1000) \div (y + 1000)
         IN  2 * AtanhSeries(z, z, 1)

\* mx.exp of one entry
Exp(q) == FromMilli(ExpMilli(ToMilli(q)))

\* mx.log of one positive entry
Log(q) == FromMilli(LnMilli(ToMilli(q)))

RECURSIVE RMaxFrom(_, _)
RMaxFrom(s, i) ==
    IF i = Len(s) THEN s[i]
    ELSE LET r == RMaxFrom(s, i + 1) IN IF RLt(s[i], r) THEN r ELSE s[i]

\* log(sum(exp(s))) of one lane, computed stably around the lane's maximum
LogSumExp(s) ==
    LET m == RMaxFrom(s, 1)
        e == [i \in 1..Len(s) |-> Exp(RSub(s[i], m))]
    IN  RAdd(m, Log(RSum(e)))

(***************************************************************************)
(* Shapes and row-major indexing.                                          *)
(***************************************************************************)
RECURSIVE ProdFrom(_, _)
ProdFrom(shape, k) ==
    IF k > Len(shape) THEN 1 ELSE shape[k] * ProdFrom(shape, k + 1)

\* the number of elements of a tensor of this shape
Numel(shape) == ProdFrom(shape, 1)

Stride(shape, k) == ProdFrom(shape, k + 1)

\* the 0-based multi-index of the 0-based flat index i
Unravel(i, shape) ==
    [k \in 1..Len(shape) |-> (i \div Stride(shape, k)) % shape[k]]

RECURSIVE RavelFrom(_, _, _)
RavelFrom(m, shape, k) ==
    IF k > Len(shape) THEN 0
    ELSE m[k] * Stride(shape, k) + RavelFrom(m, shape, k + 1)

At(t, m) == t.data[RavelFrom(m, t.shape, 1) + 1]

\* the tensor of a shape whose entry at multi-index m is F(m)
Build(shape, F(_)) ==
    [shape |-> shape,
     data  |-> [i \in 1..Numel(shape) |-> F(Unravel(i - 1, shape))]]

\* a 0-dimensional tensor
Scalar(q) == [shape |-> <<>>, data |-> <<q>>]

\* no tensor: what a variable holds before it is assigned
None == [shape |-> <<>>, data |-> <<>>]

(***************************************************************************)
(* The array operations of mlx.core the losses call.                       *)
(***************************************************************************)
\* dimension k (of n, right-aligned) of a shape, 1 where the shape is shorter
DimR(s, n, k) == IF k > n - Len(s) THEN s[k - (n - Len(s))] ELSE 1

BroadcastShape(s1, s2) ==
    LET n == IMax(Len(s1), Len(s2))
    IN  [k \in 1..n |-> IMax(DimR(s1, n, k), DimR(s2, n, k))]

CanBroadcast(s1, s2) ==
    LET n == IMax(Len(s1), Len(s2))
    IN  \A k \in 1..n :
            \/ DimR(s1, n, k) = DimR(s2, n, k)
            \/ DimR(s1, n, k) = 1
            \/ DimR(s2, n, k) = 1

\* the multi-index into an operand of shape s for the result's multi-index m
BIndex(m, s) ==
    [j \in 1..Len(s) |-> IF s[j] = 1 THEN 0 ELSE m[j + Len(m) - Len(s)]]

\* an elementwise binary operation with broadcasting
Map2(Op(_, _), a, b) ==
    Build(BroadcastShape(a.shape, b.shape),
          LAMBDA m : Op(At(a, BIndex(m, a.shape)), At(b, BIndex(m, b.shape))))

\* an elementwise unary operation
Map1(Op(_), a) ==
    [shape |-> a.shape, data |-> [i \in 1..Len(a.data) |-> Op(a.data[i])]]

\* a negative axis counts from the end
NormAxis(axis, n) == IF axis < 0 THEN axis + n ELSE axis

ValidAxis(axis, n) == NormAxis(axis, n) >= 0 /\ NormAxis(axis, n) < n

RemoveAt(s, ax) ==
    [k \in 1..(Len(s) - 1) |-> IF k <= ax THEN s[k] ELSE s[k + 1]]

InsertAt(m, ax, v) ==
    [k \in 1..(Len(m) + 1) |->
        IF k <= ax THEN m[k] ELSE IF k = ax + 1 THEN v ELSE m[k - 1]]

\* the entries of t along axis ax (0-based) at the position m of the other axes
Lane(t, ax, m) ==
    [j \in 1..t.shape[ax + 1] |-> At(t, InsertAt(m, ax, j - 1))]

\* a reduction of every lane of t along axis
ReduceAxis(F(_), t, axis) ==
    LET ax == NormAxis(axis, Len(t.shape))
    IN  Build(RemoveAt(t.shape, ax), LAMBDA m : F(Lane(t, ax, m)))

\* mx.sum(t, axis), t.mean(axis=axis), mx.logsumexp(t, axis=axis)
sum_axis(t, axis) == ReduceAxis(RSum, t, axis)

mean_axis(t, axis) == ReduceAxis(RMean, t, axis)

logsumexp(t, axis) == ReduceAxis(LogSumExp, t, axis)

\* mx.sum(t), mx.mean(t): over every element, to a 0-dimensional tensor
sum_all(t) == Scalar(RSum(t.data))

mean_all(t) == Scalar(RMean(t.data))

\* t[..., None]
expand_last(t) == [shape |-> Append(t.shape, 1), data |-> t.data]

\* t.squeeze(-1) is defined when the last axis has size 1
CanSqueezeLast(t) == Len(t.shape) >= 1 /\ t.shape[Len(t.shape)] = 1

squeeze_last(t) ==
    [shape |-> SubSeq(t.shape, 1, Len(t.shape) - 1), data |-> t.data]

\* mx.take_along_axis(a, indices, axis): indices has a's number of axes and
\* broadcasts against a on every axis but axis
CanTakeAlongAxis(a, indices, axis) ==
    /\ ValidAxis(axis, Len(a.shape))
    /\ Len(indices.shape) = Len(a.shape)
    /\ \A k \in 1..Len(a.shape) :
           \/ k = NormAxis(axis, Len(a.shape)) + 1
           \/ a.shape[k] = indices.shape[k]
           \/ a.shape[k] = 1
           \/ indices.shape[k] = 1

take_along_axis(a, indices, axis) ==
    LET ax  == NormAxis(axis, Len(a.shape)) + 1
        out == [k \in 1..Len(a.shape) |->
                   IF k = ax THEN indices.shape[k]
                   ELSE IMax(a.shape[k], indices.shape[k])]
    IN  Build(out,
              LAMBDA m :
                  LET iv == At(indices, BIndex(m, indices.shape)).num
                  IN  At(a, [k \in 1..Len(a.shape) |->
                                IF k = ax THEN iv
                                ELSE IF a.shape[k] = 1 THEN 0 ELSE m[k]]))

(***************************************************************************)
(* The outcome of a call: it returned value, or it raised error at line    *)
(* with message msg, into which the shapes were formatted.  loss is the    *)
(* local variable loss when the call ended, None if it was never assigned. *)
(***************************************************************************)
Returned(loss, value) ==
    [ok |-> TRUE, error |-> "", line |-> 0, msg |-> "", shapes |-> <<>>,
     loss |-> loss, value |-> value]

Raised(error, line, msg, shapes, loss) ==
    [ok |-> FALSE, error |-> error, line |-> line, msg |-> msg,
     shapes |-> shapes, loss |-> loss, value |-> None]

(***************************************************************************)
(* _reduce                                                                 *)
(***************************************************************************)
\* a faulty _reduce: "sum" averages
_reduce_sum_as_mean(loss, reduction) ==
    IF reduction = "mean" THEN Returned(loss, mean_all(loss))
    ELSE IF reduction = "sum" THEN Returned(loss, mean_all(loss))
    ELSE IF reduction = "none" THEN Returned(loss, loss)
    ELSE Raised("ValueError", 289,
                "Invalid reduction. Must be 'none', 'mean', or 'sum'.",
                <<>>, loss)

\* a faulty _reduce: an unknown string is taken as "none"
_reduce_default_none(loss, reduction) ==
    IF reduction = "mean" THEN Returned(loss, mean_all(loss))
    ELSE IF reduction = "sum" THEN Returned(loss, sum_all(loss))
    ELSE Returned(loss, loss)

_reduce(loss, reduction) ==
    IF reduction = "mean" THEN Returned(loss, mean_all(loss))
    ELSE IF reduction = "sum" THEN Returned(loss, sum_all(loss))
    ELSE IF reduction = "none" THEN Returned(loss, loss)
    ELSE Raised("ValueError", 289,
                "Invalid reduction. Must be 'none', 'mean', or 'sum'.",
                <<>>, loss)

(***************************************************************************)
(* cross_entropy                                                           *)
(***************************************************************************)
\* lines 47-60 once the gather and the squeeze are known to succeed: the
\* local variable loss before the weights are applied
cross_entropy_loss(logits, targets, axis, label_smoothing) ==
    LET score == squeeze_last(take_along_axis(logits, expand_last(targets), axis))
        logsumexp_logits == logsumexp(logits, axis)
    IN  IF RLt(RInt(0), label_smoothing)
        THEN LET adjusted_score ==
                     Map1(LAMBDA x : RMul(RSub(RInt(1), label_smoothing), x), score)
                 mean_logits == mean_axis(logits, axis)
                 smoothed_loss ==
                     Map1(LAMBDA x : RMul(RNeg(x), label_smoothing), mean_logits)
             IN  Map2(RAdd, Map2(RSub, logsumexp_logits, adjusted_score),
                      smoothed_loss)
        ELSE Map2(RSub, logsumexp_logits, score)

\* lines 63-69: the weights and the reduction
cross_entropy_weighted(loss, targets, weights, reduction) ==
    IF weights # None
    THEN IF weights.shape # targets.shape
         THEN Raised("ValueError", 65,
                     "Shape of weights must be the same as shape of targets.",
                     <<>>, loss)
         ELSE IF ~CanBroadcast(loss.shape, weights.shape)
         THEN Raised("ValueError", 66, "Shapes cannot be broadcast.", <<>>, loss)
         ELSE _reduce(Map2(RMul, loss, weights), reduction)
    ELSE _reduce(loss, reduction)

\* a faulty range check: label_smoothing = 1 is let through
label_smoothing_inclusive(label_smoothing) ==
    RLe(RInt(0), label_smoothing) /\ RLe(label_smoothing, RInt(1))

\* 0 <= label_smoothing < 1
label_smoothing_in_range(label_smoothing) ==
    RLe(RInt(0), label_smoothing) /\ RLt(label_smoothing, RInt(1))

\* the line that computes loss from logsumexp_logits and the score: 58 in
\* the branch label_smoothing > 0, 60 in the other
cross_entropy_loss_line(label_smoothing) ==
    IF RLt(RInt(0), label_smoothing) THEN 58 ELSE 60

cross_entropy(logits, targets, weights, axis, label_smoothing, reduction) ==
    IF ~label_smoothing_in_range(label_smoothing)
    THEN Raised("AssertionError", 40,
                "label smoothing must be between 0 and 1 (exclusive)", <<>>, None)
    ELSE IF Len(logits.shape) = 0 \/ Len(targets.shape) = 0
    THEN Raised("IndexError", 44, "list index out of range", <<>>, None)
    ELSE IF logits.shape[1] # targets.shape[1]
    THEN Raised("AssertionError", 43,
                "The shape of logits and targets must match along axis 0.",
                <<>>, None)
    ELSE IF ~CanTakeAlongAxis(logits, expand_last(targets), axis)
    THEN Raised("ValueError", 47, "Invalid indices for take_along_axis.",
                <<>>, None)
    ELSE IF ~CanSqueezeLast(take_along_axis(logits, expand_last(targets), axis))
    THEN Raised("ValueError", 47, "Cannot squeeze axis with size other than 1.",
                <<>>, None)
    ELSE IF ~CanBroadcast(
                RemoveAt(logits.shape, NormAxis(axis, Len(logits.shape))),
                squeeze_last(
                    take_along_axis(logits, expand_last(targets), axis)).shape)
    THEN Raised("ValueError", cross_entropy_loss_line(label_smoothing),
                "Shapes cannot be broadcast.", <<>>, None)
    ELSE cross_entropy_weighted(
             cross_entropy_loss(logits, targets, axis, label_smoothing),
             targets, weights, reduction)

(***************************************************************************)
(* binary_cross_entropy                                                    *)
(***************************************************************************)
binary_cross_entropy(inputs, targets, reduction) ==
    IF ~CanBroadcast(targets.shape, inputs.shape)
    THEN Raised("ValueError", 95, "Shapes cannot be broadcast.", <<>>, None)
    ELSE LET loss ==
                 Map2(LAMBDA t, x :
                          RSub(RMul(RNeg(t), Log(x)),
                               RMul(RSub(RInt(1), t), Log(RSub(RInt(1), x)))),
                      targets, inputs)
         IN  _reduce(loss, reduction)

(***************************************************************************)
(* _make_loss_module and BCELoss                                           *)
(***************************************************************************)
\* a faulty constructor: a string that is not a reduction mode becomes "none"
BCELoss__init__validating(reduction) ==
    [constructed |-> TRUE,
     reduction |-> IF reduction \in {"none", "mean", "sum"} THEN reduction
                   ELSE "none"]

\* BCELoss.__init__: the object after construction
BCELoss__init__(reduction) == [constructed |-> TRUE, reduction |-> reduction]

\* a faulty __call__: the stored mode is not passed on
BCELoss__call__default_mode(self, inputs, targets) ==
    binary_cross_entropy(inputs, targets, "none")

\* the __call__ that _make_loss_module(binary_cross_entropy) gives the class
BCELoss__call__(self, inputs, targets) ==
    binary_cross_entropy(inputs, targets, self.reduction)

(***************************************************************************)
(* l1_loss, mse_loss                                                       *)
(***************************************************************************)
\* a faulty l1_loss: shapes that broadcast are let through
l1_loss_broadcasting(predictions, targets, reduction) ==
    IF ~CanBroadcast(predictions.shape, targets.shape)
    THEN Raised("AssertionError", 157,
                "Shape of predictions {} and targets {} must match",
                <<predictions.shape, targets.shape>>, None)
    ELSE LET loss == Map1(RAbs, Map2(RSub, predictions, targets))
         IN  _reduce(loss, reduction)

l1_loss(predictions, targets, reduction) ==
    IF predictions.shape # targets.shape
    THEN Raised("AssertionError", 157,
                "Shape of predictions {} and targets {} must match",
                <<predictions.shape, targets.shape>>, None)
    ELSE LET loss == Map1(RAbs, Map2(RSub, predictions, targets))
         IN  _reduce(loss, reduction)

\* a faulty mse_loss: the message does not format the shapes
mse_loss_plain_message(predictions, targets, reduction) ==
    IF predictions.shape # targets.shape
    THEN Raised("AssertionError", 180,
                "Shape of predictions and targets must match", <<>>, None)
    ELSE LET loss == Map1(RSquare, Map2(RSub, predictions, targets))
         IN  _reduce(loss, reduction)

mse_loss(predictions, targets, reduction) ==
    IF predictions.shape # targets.shape
    THEN Raised("AssertionError", 180,
                "Shape of predictions {} and targets {} must match",
                <<predictions.shape, targets.shape>>, None)
    ELSE LET loss == Map1(RSquare, Map2(RSub, predictions, targets))
         IN  _reduce(loss, reduction)

(***************************************************************************)
(* nll_loss, kl_div_loss                                                   *)
(***************************************************************************)
nll_loss(inputs, targets, axis, reduction) ==
    IF ~CanTakeAlongAxis(inputs, expand_last(targets), axis)
    THEN Raised("ValueError", 204, "Invalid indices for take_along_axis.",
                <<>>, None)
    ELSE IF ~CanSqueezeLast(take_along_axis(inputs, expand_last(targets), axis))
    THEN Raised("ValueError", 204, "Cannot squeeze axis with size other than 1.",
                <<>>, None)
    ELSE LET loss ==
                 Map1(RNeg,
                      squeeze_last(
                          take_along_axis(inputs, expand_last(targets), axis)))
         IN  _reduce(loss, reduction)

kl_div_loss(inputs, targets, axis, reduction) ==
    IF ~CanBroadcast(targets.shape, inputs.shape)
    THEN Raised("ValueError", 232, "Shapes cannot be broadcast.", <<>>, None)
    ELSE IF ~ValidAxis(axis, Len(BroadcastShape(targets.shape, inputs.shape)))
    THEN Raised("ValueError", 232, "Invalid axis for sum.", <<>>, None)
    ELSE LET loss ==
                 sum_axis(Map2(RMul, Map1(Exp, targets),
                               Map2(RSub, targets, inputs)), axis)
         IN  _reduce(loss, reduction)

(***************************************************************************)
(* smooth_l1_loss                                                          *)
(***************************************************************************)
smooth_l1_loss(predictions, targets, beta, reduction) ==
    IF predictions.shape # targets.shape
    THEN Raised("AssertionError", 268,
                "Shape of predictions {} and targets {} must match",
                <<predictions.shape, targets.shape>>, None)
    ELSE LET diff == Map2(RSub, predictions, targets)
             loss ==
                 Map1(LAMBDA d :
                          IF RLt(d, beta)
                          THEN RDiv(RMul(Rat(1, 2), RSquare(d)), beta)
                          ELSE RSub(RAbs(d), RMul(Rat(1, 2), beta)),
                      diff)
         IN  _reduce(loss, reduction)

(***************************************************************************)
(* The inputs the calls are given.                                         *)
(***************************************************************************)
Vals == (-MaxVal)..MaxVal

Dims == 1..MaxDim

Shapes1 == {<<a>> : a \in Dims}

Shapes2 == {<<a, b>> : a \in Dims, b \in Dims}

Shapes3 == {<<a, b, c>> : a \in Dims, b \in Dims, c \in Dims}

Shapes == {<<>>} \cup Shapes1 \cup Shapes2

\* the reduction strings: the three accepted ones and two others
Reductions == {"none", "mean", "sum", "Mean", "avg"}

ValidReductions == {"none", "mean", "sum"}

\* the tensor of a shape holding x at every third place from the first and y
\* elsewhere
Fill(shape, x, y) ==
    [shape |-> shape,
     data  |-> [i \in 1..Numel(shape) |-> IF i % 3 = 1 THEN x ELSE y]]

IntTensors(shape, S) == {Fill(shape, RInt(x), RInt(y)) : x \in S, y \in S}

\* all-zero tensors of another shape than p's, with at most one axis
Mismatched(p) ==
    {Fill(s, RInt(0), RInt(0)) :
         s \in {u \in Shapes : Len(u) <= 1 /\ u # p.shape}}

\* targets for predictions p: of p's shape, or of another shape
TargetsLike(p, S) == IntTensors(p.shape, S) \cup Mismatched(p)

\* the same with one value at every place
ConstantTargetsLike(p, S) ==
    {Fill(p.shape, RInt(x), RInt(x)) : x \in S} \cup Mismatched(p)

Betas == {Rat(1, 2), RInt(1), RInt(2)}

LabelSmoothings == {Rat(-1, 4), RInt(0), Rat(1, 4), Rat(1, 2), RInt(1)}

\* the default axis and every axis counted from the front
AxesOf(shape) == {-1} \cup 0..(Len(shape) - 1)

\* class indices for inputs gathered along axis: of the shape of the inputs
\* without that axis, or all zero with one axis
IndexTargets(inputs, axis) ==
    LET ax == NormAxis(axis, Len(inputs.shape))
    IN  {Fill(RemoveAt(inputs.shape, ax), RInt(i), RInt(0)) :
             i \in 0..(inputs.shape[ax + 1] - 1)}
            \cup {Fill(s, RInt(0), RInt(0)) : s \in Shapes1}

\* the shapes of logits of three axes: every one within the bounds, and one
\* whose middle dimension is MaxDim + 1
ThreeAxisShapes == Shapes3 \cup {<<MaxDim, MaxDim + 1, 1>>}

\* logits of three axes, of the least and the greatest value
ThreeAxisLogits(shape) == IntTensors(shape, {0, MaxVal})

\* class indices for logits of three axes gathered along axis: of the shape
\* of the logits without one of their axes, or all zero with one axis
ThreeAxisTargets(logits, axis) ==
    {Fill(RemoveAt(logits.shape, k), RInt(i), RInt(0)) :
         k \in 0..2,
         i \in 0..(logits.shape[NormAxis(axis, 3) + 1] - 1)}
        \cup {Fill(s, RInt(0), RInt(0)) : s \in Shapes1}

\* logits and targets of which one has no axes
NoAxisCalls ==
    {[logits |-> Fill(s, RInt(1), RInt(0)), targets |-> Scalar(RInt(0))] :
         s \in Shapes2}
        \cup {[logits |-> Scalar(RInt(1)), targets |-> Fill(s, RInt(0), RInt(0))] :
                  s \in {<<>>} \cup Shapes1}

\* weights for targets: none, of the targets' shape, or with one more axis
WeightsFor(targets) ==
    {None, Fill(targets.shape, RInt(2), RInt(2)),
     Fill(Append(targets.shape, 1), RInt(2), RInt(2))}

Probabilities == {Rat(1, 4), Rat(1, 2), Rat(3, 4)}

ProbTensors(shape) == {Fill(shape, p, q) : p \in Probabilities, q \in Probabilities}

(***************************************************************************)
(* The state: a call (fn, args), whether it is still to be made or done    *)
(* (pc), its outcome (result), the BCELoss object (module), and the        *)
(* history variable hist: the mode the object was constructed with and    *)
(* its first call since.                                                   *)
(***************************************************************************)
NoModule == [constructed |-> FALSE, reduction |-> ""]

NoResult == Returned(None, None)

NoCall(given) ==
    [given |-> given, called |-> FALSE, later |-> FALSE, inputs |-> None,
     targets |-> None, result |-> NoResult]

(***************************************************************************)
(* A program that imports the module and makes one call of a loss          *)
(* function.  The initial state holds the call to be made.                 *)
(***************************************************************************)
Args_cross_entropy ==
    \/ \E s \in Shapes2, x \in Vals, y \in Vals :
       \E axis \in AxesOf(s) :
       \E label_smoothing \in LabelSmoothings, reduction \in Reductions :
       \E targets \in IndexTargets(Fill(s, RInt(x), RInt(y)), axis) :
       \E weights \in WeightsFor(targets) :
           /\ fn = "cross_entropy"
           /\ args = [logits |-> Fill(s, RInt(x), RInt(y)), targets |-> targets,
                      weights |-> weights, axis |-> axis,
                      label_smoothing |-> label_smoothing,
                      reduction |-> reduction]
    \/ \E s \in ThreeAxisShapes :
       \E axis \in AxesOf(s), logits \in ThreeAxisLogits(s) :
       \E label_smoothing \in LabelSmoothings, reduction \in Reductions :
       \E targets \in ThreeAxisTargets(logits, axis) :
       \E weights \in WeightsFor(targets) :
           /\ fn = "cross_entropy"
           /\ args = [logits |-> logits, targets |-> targets,
                      weights |-> weights, axis |-> axis,
                      label_smoothing |-> label_smoothing,
                      reduction |-> reduction]
    \/ \E c \in NoAxisCalls :
       \E label_smoothing \in LabelSmoothings, reduction \in Reductions :
       \E weights \in WeightsFor(c.targets) :
           /\ fn = "cross_entropy"
           /\ args = [logits |-> c.logits, targets |-> c.targets,
                      weights |-> weights, axis |-> -1,
                      label_smoothing |-> label_smoothing,
                      reduction |-> reduction]

Args_binary_cross_entropy ==
    \E s \in Shapes, reduction \in Reductions :
    \E inputs \in ProbTensors(s) :
    \E targets \in TargetsLike(inputs, {0, 1}) :
        /\ fn \in {"binary_cross_entropy", "BCELoss"}
        /\ args = [inputs |-> inputs, targets |-> targets, reduction |-> reduction]

Args_l1_loss ==
    \E s \in Shapes, reduction \in Reductions :
    \E predictions \in IntTensors(s, Vals) :
    \E targets \in TargetsLike(predictions, Vals) :
        /\ fn \in {"l1_loss", "mse_loss"}
        /\ args = [predictions |-> predictions, targets |-> targets,
                   reduction |-> reduction]

Args_nll_loss ==
    \E s \in Shapes2 \cup Shapes3, reduction \in Reductions :
    \E axis \in AxesOf(s) :
    \E inputs \in IntTensors(s, Vals) :
    \E targets \in IndexTargets(inputs, axis) :
        /\ fn = "nll_loss"
        /\ args = [inputs |-> inputs, targets |-> targets, axis |-> axis,
                   reduction |-> reduction]

Args_kl_div_loss ==
    \E s \in Shapes1 \cup Shapes2, reduction \in Reductions :
    \E axis \in AxesOf(s) \cup {Len(s)} :
    \E inputs \in IntTensors(s, Vals) :
    \E targets \in TargetsLike(inputs, Vals) :
        /\ fn = "kl_div_loss"
        /\ args = [inputs |-> inputs, targets |-> targets, axis |-> axis,
                   reduction |-> reduction]

Args_smooth_l1_loss ==
    \E s \in Shapes, beta \in Betas, reduction \in Reductions :
    \E predictions \in IntTensors(s, Vals) :
    \E targets \in TargetsLike(predictions, Vals) :
        /\ fn = "smooth_l1_loss"
        /\ args = [predictions |-> predictions, targets |-> targets,
                   beta |-> beta, reduction |-> reduction]

Init ==
    /\ pc = "call"
    /\ result = NoResult
    /\ module = NoModule
    /\ hist = NoCall("")
    /\ \/ Args_cross_entropy
       \/ Args_binary_cross_entropy
       \/ Args_l1_loss
       \/ Args_nll_loss
       \/ Args_kl_div_loss
       \/ Args_smooth_l1_loss

Return(outcome) ==
    /\ pc = "call"
    /\ pc' = "done"
    /\ result' = outcome
    /\ UNCHANGED <<fn, args, module, hist>>

Call_cross_entropy ==
    /\ fn = "cross_entropy"
    /\ Return(cross_entropy(args.logits, args.targets, args.weights, args.axis,
                            args.label_smoothing, args.reduction))

Call_binary_cross_entropy ==
    /\ fn = "binary_cross_entropy"
    /\ Return(binary_cross_entropy(args.inputs, args.targets, args.reduction))

\* BCELoss(reduction)(inputs, targets): a BCELoss object built for one call
Call_BCELoss ==
    /\ fn = "BCELoss"
    /\ Return(BCELoss__call__(BCELoss__init__(args.reduction),
                              args.inputs, args.targets))

Call_l1_loss ==
    /\ fn = "l1_loss"
    /\ Return(l1_loss(args.predictions, args.targets, args.reduction))

Call_mse_loss ==
    /\ fn = "mse_loss"
    /\ Return(mse_loss(args.predictions, args.targets, args.reduction))

Call_nll_loss ==
    /\ fn = "nll_loss"
    /\ Return(nll_loss(args.inputs, args.targets, args.axis, args.reduction))

Call_kl_div_loss ==
    /\ fn = "kl_div_loss"
    /\ Return(kl_div_loss(args.inputs, args.targets, args.axis, args.reduction))

Call_smooth_l1_loss ==
    /\ fn = "smooth_l1_loss"
    /\ Return(smooth_l1_loss(args.predictions, args.targets, args.beta,
                             args.reduction))

Next ==
    \/ Call_cross_entropy
    \/ Call_binary_cross_entropy
    \/ Call_BCELoss
    \/ Call_l1_loss
    \/ Call_mse_loss
    \/ Call_nll_loss
    \/ Call_kl_div_loss
    \/ Call_smooth_l1_loss

Spec == Init /\ [][Next]_vars

(***************************************************************************)
(* A program that constructs BCELoss objects and calls the current one     *)
(* any number of times.                                                    *)
(***************************************************************************)
InitModule ==
    /\ pc = "done"
    /\ fn = "import"
    /\ args = [reduction |-> "none"]
    /\ result = NoResult
    /\ module = NoModule
    /\ hist = NoCall("")

Construct ==
    \E reduction \in Reductions :
        /\ fn' = "BCELoss.__init__"
        /\ args' = [reduction |-> reduction]
        /\ module' = BCELoss__init__(reduction)
        /\ result' = NoResult
        /\ hist' = NoCall(reduction)
        /\ UNCHANGED pc

CallModule ==
    /\ module.constructed
    /\ \E s \in Shapes1, p \in Probabilities :
       \E targets \in ConstantTargetsLike(Fill(s, p, p), {0, 1}) :
           /\ fn' = "BCELoss.__call__"
           /\ args' = [inputs |-> Fill(s, p, p), targets |-> targets]
           /\ result' = BCELoss__call__(module, Fill(s, p, p), targets)
           /\ hist' = IF hist.called THEN [hist EXCEPT !.later = TRUE]
                      ELSE [hist EXCEPT !.called = TRUE,
                                        !.inputs = Fill(s, p, p),
                                        !.targets = targets,
                                        !.result = result']
           /\ UNCHANGED <<pc, module>>

NextModule == Construct \/ CallModule

ModuleSpec == InitModule /\ [][NextModule]_vars

(***************************************************************************)
(* The properties.                                                         *)
(***************************************************************************)
LossFunctions ==
    {"cross_entropy", "binary_cross_entropy", "l1_loss", "mse_loss",
     "nll_loss", "kl_div_loss", "smooth_l1_loss"}

\* the outcome of calling loss function f with the arguments a
Invoke(f, a) ==
    CASE f = "cross_entropy" ->
             cross_entropy(a.logits, a.targets, a.weights, a.axis,
                           a.label_smoothing, a.reduction)
      [] f = "binary_cross_entropy" ->
             binary_cross_entropy(a.inputs, a.targets, a.reduction)
      [] f = "l1_loss" -> l1_loss(a.predictions, a.targets, a.reduction)
      [] f = "mse_loss" -> mse_loss(a.predictions, a.targets, a.reduction)
      [] f = "nll_loss" -> nll_loss(a.inputs, a.targets, a.axis, a.reduction)
      [] f = "kl_div_loss" ->
             kl_div_loss(a.inputs, a.targets, a.axis, a.reduction)
      [] f = "smooth_l1_loss" ->
             smooth_l1_loss(a.predictions, a.targets, a.beta, a.reduction)

\* the total of a sequence, added up from its last entry to its first
RECURSIVE TotalUpTo(_, _)
TotalUpTo(s, n) == IF n = 0 THEN RInt(0) ELSE RAdd(TotalUpTo(s, n - 1), s[n])

Total(s) == TotalUpTo(s, Len(s))

Done(f) == pc = "done" /\ fn = f

\* C1: for every loss function, a call with reduction "sum" returns the total
\* of the elements that the same call with reduction "none" returns, a call
\* with "mean" returns that total divided by the number of elements, and a
\* call with "none" returns the elementwise loss unchanged; the three fail
\* or return together.
C1_ReductionOfNone ==
    (pc = "done" /\ fn \in LossFunctions /\ args.reduction \in ValidReductions)
        => LET none == Invoke(fn, [args EXCEPT !.reduction = "none"])
           IN  /\ result.ok = none.ok
               /\ result.ok =>
                      /\ result.loss = none.value
                      /\ args.reduction = "none" => result.value = result.loss
                      /\ args.reduction = "sum" =>
                             result.value = Scalar(Total(none.value.data))
                      /\ args.reduction = "mean" =>
                             result.value =
                                 Scalar(RDiv(Total(none.value.data),
                                             RInt(Numel(none.value.shape))))

\* C1 witness: a "mean" call over several elements whose average is not
\* their total
C1_Witness ==
    /\ pc = "done" /\ fn = "kl_div_loss" /\ result.ok
    /\ args.reduction = "mean"
    /\ Numel(result.loss.shape) >= 2
    /\ result.value # Scalar(Total(result.loss.data))

SmoothL1Documented(d, beta) ==
    IF RLt(RAbs(d), beta)
    THEN RDiv(RMul(Rat(1, 2), RSquare(d)), beta)
    ELSE RSub(RAbs(d), RMul(Rat(1, 2), beta))

\* C2: smooth_l1_loss with reduction "none" returns, for every element,
\* 0.5*diff^2/beta when |diff| < beta and |diff| - 0.5*beta otherwise, and
\* swapping predictions and targets does not change the loss.
C2_SmoothL1Symmetric ==
    (Done("smooth_l1_loss") /\ result.ok /\ args.reduction = "none")
        => /\ \A i \in 1..Len(result.value.data) :
                  result.value.data[i] =
                      SmoothL1Documented(
                          RSub(args.predictions.data[i], args.targets.data[i]),
                          args.beta)
           /\ result.value =
                  smooth_l1_loss(args.targets, args.predictions, args.beta,
                                 "none").value

\* the class axis the call names, counted from the front
ClassAxis == NormAxis(args.axis, Len(args[IF fn = "nll_loss" THEN "inputs"
                                          ELSE "logits"].shape))

Scores == args[IF fn = "nll_loss" THEN "inputs" ELSE "logits"]

\* C3: cross_entropy and nll_loss with reduction "none", any axis and
\* targets of the shape of the logits/inputs without that axis return a
\* tensor of that shape.
C3_ClassAxisSqueezed ==
    (/\ pc = "done" /\ fn \in {"cross_entropy", "nll_loss"}
     /\ args.reduction = "none"
     /\ ValidAxis(args.axis, Len(Scores.shape))
     /\ args.targets.shape = RemoveAt(Scores.shape, ClassAxis)
     /\ fn = "cross_entropy" =>
            /\ label_smoothing_in_range(args.label_smoothing)
            /\ args.weights = None
            /\ Scores.shape[1] = args.targets.shape[1])
        => /\ result.ok
           /\ result.value.shape = RemoveAt(Scores.shape, ClassAxis)

\* C4: a reduction string other than "none", "mean" and "sum" makes every
\* loss function and a BCELoss call fail and return no tensor, whatever
\* the other arguments are; with one of the three the invalid-reduction
\* error is never raised.
C4_InvalidReductionFails ==
    (pc = "done" /\ fn \in LossFunctions \cup {"BCELoss"})
        => /\ args.reduction \notin {"none", "mean", "sum"} =>
                  ~result.ok /\ result.value = None
           /\ args.reduction \in {"none", "mean", "sum"} => result.line # 289

\* C4 witness: a call whose other arguments are valid is stopped by the
\* reduction string "Mean"
C4_Witness ==
    /\ Done("nll_loss") /\ args.reduction = "Mean"
    /\ ~result.ok /\ result.error = "ValueError" /\ result.line = 289

\* C5: l1_loss, mse_loss and smooth_l1_loss fail when the shape of
\* predictions is not the shape of targets, broadcastable or not, before
\* the loss is computed; the shape check does not fail on equal shapes.
C5_ShapeMismatchFails ==
    (pc = "done" /\ fn \in {"l1_loss", "mse_loss", "smooth_l1_loss"})
        => /\ args.predictions.shape # args.targets.shape =>
                  /\ ~result.ok
                  /\ result.error = "AssertionError"
                  /\ result.loss = None
                  /\ result.value = None
           /\ args.predictions.shape = args.targets.shape =>
                  result.error # "AssertionError"

\* C5 witness: l1_loss refuses targets of one axis that would broadcast to
\* predictions of two
C5_Witness ==
    /\ Done("l1_loss") /\ ~result.ok
    /\ Len(args.predictions.shape) = 2 /\ Len(args.targets.shape) = 1
    /\ CanBroadcast(args.predictions.shape, args.targets.shape)
    /\ args.reduction = "sum"

\* logits and targets both have a first dimension, and the two differ
LeadingDimsDiffer ==
    /\ Len(args.logits.shape) >= 1
    /\ Len(args.targets.shape) >= 1
    /\ args.logits.shape[1] # args.targets.shape[1]

\* C6: cross_entropy fails with an assertion, before anything is gathered,
\* when label_smoothing is negative or at least 1 or when the first
\* dimensions of logits and targets differ; label_smoothing = 0 passes the
\* range check.
C6_CrossEntropyPreconditions ==
    Done("cross_entropy")
        => /\ (\/ RLt(args.label_smoothing, RInt(0))
               \/ RLe(RInt(1), args.label_smoothing)
               \/ LeadingDimsDiffer) =>
                  /\ ~result.ok
                  /\ result.error = "AssertionError"
                  /\ result.line \in {40, 43}
                  /\ result.loss = None
                  /\ result.value = None
           /\ args.label_smoothing = RInt(0) => result.line # 40

\* C6 witness: label_smoothing = 1 is refused although every other
\* argument is valid
C6_Witness ==
    /\ Done("cross_entropy") /\ args.label_smoothing = RInt(1)
    /\ args.axis = -1 /\ args.weights = None
    /\ args.targets.shape = RemoveAt(args.logits.shape, ClassAxis)
    /\ args.reduction = "none"
    /\ ~result.ok /\ result.line = 40

ShapeMismatchLines == {65, 157, 180, 268}

\* C7 as stated: every shape-mismatch error, the weights/targets one of
\* cross_entropy included, carries the two offending shapes in its message.
C7_EveryMismatchNamesShapes ==
    (pc = "done" /\ ~result.ok /\ result.line \in ShapeMismatchLines)
        => Len(result.shapes) = 2

\* C7 amended: the predictions/targets mismatch errors of l1_loss, mse_loss
\* and smooth_l1_loss carry the two shapes; the weights/targets mismatch
\* error of cross_entropy carries a fixed message without shapes.
C7_MismatchMessages ==
    (pc = "done" /\ ~result.ok /\ result.line \in ShapeMismatchLines)
        => IF fn = "cross_entropy"
           THEN /\ args.weights.shape # args.targets.shape
                /\ result.shapes = <<>>
                /\ result.msg =
                       "Shape of weights must be the same as shape of targets."
           ELSE result.shapes = <<args.predictions.shape, args.targets.shape>>

\* C7 witness: cross_entropy refuses weights of another shape than targets
C7_Witness ==
    /\ Done("cross_entropy") /\ ~result.ok /\ result.line = 65
    /\ args.weights # None /\ args.weights.shape # args.targets.shape

\* C8: a call of a BCELoss object has the outcome of binary_cross_entropy
\* with the same inputs and targets and the mode given at construction.
C8_ModuleIsFunction ==
    fn = "BCELoss.__call__"
        => result = binary_cross_entropy(args.inputs, args.targets, hist.given)

\* C8 witness: an object constructed with "mean" returns a tensor
C8_Witness ==
    /\ fn = "BCELoss.__call__" /\ hist.given = "mean"
    /\ result.ok /\ Len(args.inputs.data) >= 2
    /\ result.value # sum_all(result.loss)

\* the gathered score the specification describes: the logit of the target
\* class along the class axis, that axis removed
GatheredScore(logits, targets, ax) ==
    Build(RemoveAt(logits.shape, ax),
          LAMBDA m : At(logits, InsertAt(m, ax, At(targets, m).num)))

SmoothedLoss(logits, targets, axis, e) ==
    LET ax == NormAxis(axis, Len(logits.shape))
    IN  Map2(RSub,
             Map2(RSub, logsumexp(logits, axis),
                  Map1(LAMBDA x : RMul(RSub(RInt(1), e), x),
                       GatheredScore(logits, targets, ax))),
             Map1(LAMBDA x : RMul(e, x), mean_axis(logits, axis)))

\* the local variable loss for an unweighted loss u: multiplied by the
\* weights once line 66 has run
Weighted(u) ==
    IF args.weights # None /\ result.line # 65
    THEN Map2(RMul, u, args.weights) ELSE u

\* C9: for 0 <= e < 1, any axis and targets of the shape of logits without
\* the class axis, the elementwise cross_entropy loss before weighting is
\* logsumexp - (1 - e)*gathered_score - e*mean(logits, axis), which at
\* e = 0 is logsumexp - gathered_score.
C9_LabelSmoothingFormula ==
    (/\ Done("cross_entropy") /\ result.loss # None
     /\ ValidAxis(args.axis, Len(args.logits.shape))
     /\ args.targets.shape = RemoveAt(args.logits.shape, ClassAxis))
        => /\ result.loss =
                  Weighted(SmoothedLoss(args.logits, args.targets, args.axis,
                                        args.label_smoothing))
           /\ args.label_smoothing = RInt(0) =>
                  result.loss =
                      Weighted(Map2(RSub, logsumexp(args.logits, args.axis),
                                    GatheredScore(args.logits, args.targets,
                                                  ClassAxis)))

C10_State ==
    /\ module.constructed => module.reduction = hist.given
    /\ fn = "BCELoss.__init__" => result.ok /\ module.constructed
    /\ fn = "BCELoss.__call__" =>
           /\ hist.given \notin {"none", "mean", "sum"} => ~result.ok
           /\ (args.inputs = hist.inputs /\ args.targets = hist.targets) =>
                  result = hist.result

C10_Step == fn' = "BCELoss.__call__" => module' = module

\* C10: constructing a BCELoss stores any string without validating it, an
\* invalid mode makes the calls fail, a call leaves the stored mode as it
\* is, and a later call with the inputs and targets of the first has the
\* outcome of the first.
C10_StoredModeIsStable == [](C10_State) /\ [][C10_Step]_vars

\* C10 witness: an object constructed with "Mean" is called again with the
\* arguments of its first call
C10_Witness ==
    /\ fn = "BCELoss.__call__" /\ hist.given = "Mean" /\ hist.later
    /\ args.inputs = hist.inputs /\ args.targets = hist.targets
    /\ ~result.ok /\ result.line = 289

====
